---- MODULE Spec2Model ----
(***************************************************************************)
(* Orchestration core of the research agent: the job and task state        *)
(* machines (src/src/worker/tasks.py), driven by the supervisor_loop and   *)
(* the phase handlers running on a pool of Celery workers, and the         *)
(* idempotent job creation of POST /research (src/src/api/main.py).        *)
(*                                                                         *)
(* One job is followed from the state in which create_research left it    *)
(* (row committed with status "pending", start_research_chain enqueued).   *)
(* Every handler execution is a record in `running`; a handler that calls  *)
(* an agent is split at the agent call, the supervisor at each database    *)
(* read, commit and enqueue, so that executions on different workers       *)
(* interleave as they do on the worker pool.                               *)
(***************************************************************************)
EXTENDS Naturals, Integers, Sequences, FiniteSets, Bags, TLC

\* Bounds of the model.
MaxTasks == 2        \* task rows a job may hold
NumWorkers == 2      \* handler executions in progress at once
MaxRequests == 2     \* POST /research requests in one run
MaxDisturb == 1      \* disturbances in one run: agent calls that raise, critic
                     \* rejections, supervisor runs started while another is
                     \* in progress, redelivered messages, soft-signal outputs
                     \* that fail to parse (one of these may follow a critic
                     \* rejection)
MaxSkip == 1         \* soft-signal agent outputs that fail to parse in one run
CountCap == 2        \* history counters saturate here
MaxChunks == 3       \* rows of research_chunks
MaxParagraphs == 2   \* paragraphs of one report handed to save_chunks
MaxClock == 4        \* the clock runs from 0 to here
MaxAgeDays == 2      \* largest max_age_days asked for
TicksPerDay == 2     \* clock ticks in one day
MaxProjected == 70   \* tasks of a job whose progress is projected
MaxToolCalls == 2    \* tool calls in one response of the LLM
MaxLines == 5        \* lines of the LLM's answer to the sub-query prompt
MaxResults == 3      \* largest max_results asked of a deep search

VARIABLES
    job,          \* the ResearchReport row of the job
    tasks,        \* the ResearchTask rows of the job, in insertion order
    queue,        \* bag of Celery messages waiting for a worker
    running,      \* bag of handler executions in progress
    raised,       \* history: agent calls that raised
    rejected,     \* history: reviews that ended in REJECTED
    overlaps,     \* history: supervisor runs started while another was running
    genCount,     \* history: commits of job.status = "generating"
    aggEnq,       \* history: aggregate_report messages enqueued
    reached,      \* history: tasks that have been APPROVED at some time
    redelivered,  \* history: messages delivered a second time
    chunkSaves,   \* history: executions of save_chunks for the job
    skipped,      \* history: soft-signal outputs that json.loads rejected
    planner,      \* history: how the planner's output parsed in the step just
                  \* taken ("none": the step was no plan_research that got output)
    critic,       \* history: the critic output review parsed in the step just
                  \* taken ("none": the step was no review that got output)
    rag,          \* the research_chunks table, the clock, and what the last
                  \* save_chunks and the last search_similar_chunks did
    agentRun,     \* one Agent.run: the turn, the conversation, the tool calls
                  \* of the last response still to execute, and the result
    deep,         \* the last _run_deep_search: its inputs, the queries it
                  \* sent to Tavily and the results it returned
    projector,    \* the last call of calculate_progress: its arguments and
                  \* what it returned
    api           \* POST /research: the requests in progress, the idempotency
                  \* cache, the job rows created and the chains enqueued

vars == <<job, tasks, queue, running, raised, rejected, overlaps, genCount, aggEnq,
          reached, redelivered, chunkSaves, skipped, critic, planner, rag, projector, agentRun, deep, api>>

\* What the library functions followed on their own work on.
helpers == <<rag, projector, agentRun, deep>>

\* The research pipeline of one job: everything but the API and the helpers.
pipeline == <<job, tasks, queue, running, raised, rejected, overlaps, genCount,
              aggEnq, reached, redelivered, chunkSaves, skipped, critic, planner>>

----------------------------------------------------------------------------
\* Status vocabularies.

Dispatchable == {"PENDING", "HYPOTHESIZED", "RESEARCHED", "SCORED", "CONTRADICTED", "REJECTED"}

Sentinels == {"HYPOTHESIZING_STARTED", "RESEARCHING_STARTED", "SCORING_STARTED",
              "CONTRADICTING_STARTED", "REVIEW_STARTED", "RESEARCHING_RETRY"}

TaskStatuses == Dispatchable \cup Sentinels \cup {"APPROVED"}

JobStatuses == {"pending", "processing", "generating", "completed", "failed"}

TaskHandlers == {"generate_hypotheses", "perform_research", "score_evidence",
                 "find_contradictions", "review"}

\* Mutant of SentinelFor: a rejected task gets the sentinel of a first research.
SentinelForNoRetry(st) ==
    CASE st = "PENDING"      -> "HYPOTHESIZING_STARTED"
      [] st = "HYPOTHESIZED" -> "RESEARCHING_STARTED"
      [] st = "RESEARCHED"   -> "SCORING_STARTED"
      [] st = "SCORED"       -> "CONTRADICTING_STARTED"
      [] st = "CONTRADICTED" -> "REVIEW_STARTED"
      [] st = "REJECTED"     -> "RESEARCHING_STARTED"
      [] OTHER               -> st

\* The in-progress status the supervisor writes for a task it read in status st.
SentinelFor(st) ==
    CASE st = "PENDING"      -> "HYPOTHESIZING_STARTED"
      [] st = "HYPOTHESIZED" -> "RESEARCHING_STARTED"
      [] st = "RESEARCHED"   -> "SCORING_STARTED"
      [] st = "SCORED"       -> "CONTRADICTING_STARTED"
      [] st = "CONTRADICTED" -> "REVIEW_STARTED"
      [] st = "REJECTED"     -> "RESEARCHING_RETRY"
      [] OTHER               -> st

\* The handler the supervisor enqueues for a task it read in status st.
\* Mutant of HandlerFor: a rejected task starts over with hypothesis generation.
HandlerForRestart(st) ==
    CASE st = "PENDING"      -> "generate_hypotheses"
      [] st = "HYPOTHESIZED" -> "perform_research"
      [] st = "RESEARCHED"   -> "score_evidence"
      [] st = "SCORED"       -> "find_contradictions"
      [] st = "CONTRADICTED" -> "review"
      [] st = "REJECTED"     -> "generate_hypotheses"
      [] OTHER               -> "none"

HandlerFor(st) ==
    CASE st = "PENDING"      -> "generate_hypotheses"
      [] st = "HYPOTHESIZED" -> "perform_research"
      [] st = "RESEARCHED"   -> "score_evidence"
      [] st = "SCORED"       -> "find_contradictions"
      [] st = "CONTRADICTED" -> "review"
      [] st = "REJECTED"     -> "perform_research"
      [] OTHER               -> "none"

\* Whether the supervisor's if/elif chain takes a dispatching branch for st.
SupervisorDispatches(st) == st \in Dispatchable

----------------------------------------------------------------------------
\* Messages and executions.

Msg(kind, task, arg) == [kind |-> kind, task |-> task, arg |-> arg]

Put(q, m) == q (+) SetToBag({m})

Take(q, m) == q (-) SetToBag({m})

Count(b, e) == IF e \in DOMAIN b THEN b[e] ELSE 0

\* A handler execution. kind/task/arg are the message it was started from;
\* pc is its position; n, i, snap, committed, allApproved are the supervisor's
\* locals; loc and locfb are the status and the feedback the execution last
\* loaded from the database.
Exec(m, pc, loc) ==
    [kind |-> m.kind, task |-> m.task, arg |-> m.arg, pc |-> pc, loc |-> loc,
     locfb |-> "none", n |-> 0, i |-> 0, snap |-> <<>>, committed |-> FALSE, allApproved |-> TRUE]

MsgOf(r) == Msg(r.kind, r.task, r.arg)

\* r continues as r2, or ends when r2 has run to its end.
Continue(r, r2) ==
    IF r2.pc = "done" THEN Take(running, r) ELSE Put(Take(running, r), r2)

Finish(r) == Take(running, r)

Inc(c) == IF c < CountCap THEN c + 1 ELSE c

WorkerFree == BagCardinality(running) < NumWorkers

\* The run has not used up its disturbances.
Calm == raised + rejected + overlaps + redelivered + skipped < MaxDisturb

SupRunning == \E x \in BagToSet(running) : x.kind = "supervisor_loop"

----------------------------------------------------------------------------
\* Rows.

\* hypotheses, evidence_rating and contradictions are null in a new row:
\* payload is the set of these columns that hold a value.
\* title is "planned" for a title the planner wrote, and otherwise the text
\* the title was copied from.
NewTask == [status |-> "PENDING", result |-> FALSE, feedback |-> "none", payload |-> {},
            title |-> "planned"]

NewTasks(k) == [x \in 1..k |-> NewTask]

ApprovedTasks == {t \in DOMAIN tasks : tasks[t].status = "APPROVED"}

\* An attribute assignment of the ORM unit of work: an UPDATE carries the
\* column only when the assigned value differs from the value the session
\* loaded; otherwise the row keeps whatever it holds now.
OrmSet(loaded, new, cur) == IF new = loaded THEN cur ELSE new

----------------------------------------------------------------------------
\* POST /research (create_research).

Keys == {"", "k1", "k2"}       \* Idempotency-Key header; "" is absent or empty

Requests == 1..MaxRequests

NoJob == 0

\* The length of the idea in the request body; NoIdea: the field is missing.
NoIdea == -1

\* ResearchRequest.idea: min_length.
MinIdeaLength == 5

\* No request has arrived, nothing is cached, no row has been created.
ApiAtRest ==
    [req     |-> [q \in Requests |-> [pc |-> "idle", key |-> "", job |-> NoJob, resp |-> "none",
                                   enabled |-> FALSE, header |-> "", idea |-> NoIdea]],
     cache   |-> [k \in Keys \ {""} |-> NoJob],
     expired |-> {},
     rows    |-> {},
     chains  |-> <<>>]

----------------------------------------------------------------------------
\* The progress projector and the API's responses.

\* int((completed / total) * 70). The quotient is a float and int() truncates
\* the product: it is floor(70 * completed / total) except where the product
\* falls short of a whole number, which for less than 2000 tasks happens
\* exactly when completed / total = 47 / 70 ((47 / 70) * 70 is
\* 46.99999999999999).
TaskProgress(completed, total) ==
    IF total = 0 THEN 0
    ELSE IF completed * 70 = total * 47 THEN 46
    ELSE (completed * 70) \div total

\* Mutant of CalculateProgress: a job whose tasks are all reviewed reports 100.
CalculateProgressFull(status, ts) ==
    IF status = "completed" THEN <<100, "reporting">>
    ELSE IF status = "failed" THEN <<0, "failed">>
    ELSE IF status = "pending" THEN <<0, "enriching">>
    ELSE IF Len(ts) = 0 THEN <<10, "planning">>
    ELSE LET total     == Len(ts)
             completed == Cardinality({t \in DOMAIN ts : ts[t] \in {"APPROVED", "REJECTED"}})
             current   == 20 + TaskProgress(completed, total)
         IN  IF completed = total
             THEN <<100, "reporting">>
             ELSE <<IF current < 99 THEN current ELSE 99, "researching">>

\* calculate_progress(job_id, db, main_status) on task statuses ts:
\* <<progress_percent, current_phase>>.
CalculateProgress(status, ts) ==
    IF status = "completed" THEN <<100, "reporting">>
    ELSE IF status = "failed" THEN <<0, "failed">>
    ELSE IF status = "pending" THEN <<0, "enriching">>
    ELSE IF Len(ts) = 0 THEN <<10, "planning">>
    ELSE LET total     == Len(ts)
             completed == Cardinality({t \in DOMAIN ts : ts[t] \in {"APPROVED", "REJECTED"}})
             current   == 20 + TaskProgress(completed, total)
         IN  IF completed = total
             THEN <<90, "reporting">>
             ELSE <<IF current < 99 THEN current ELSE 99, "researching">>

\* The status fields of a ResearchJobStatus / ResearchResult.
Response(status, progress, phase) ==
    [status |-> status, progress_percent |-> progress, current_phase |-> phase]

\* get_research_status_logic / get_research for a job row j with task statuses ts.
StatusResponse(j, ts) ==
    Response(j.status, CalculateProgress(j.status, ts)[1], CalculateProgress(j.status, ts)[2])

\* What create_research returns for the job it has just created.
CreatedResponse == Response("pending", 0, "queued")

\* No call of calculate_progress yet.
ProjectorAtRest ==
    [status |-> "pending", total |-> 0, completed |-> 0, out |-> <<0, "enriching">>,
     done |-> FALSE]

\* calculate_progress is called once, for a job in any status with any number
\* of tasks, any number of them reviewed: the first completed tasks are
\* reviewed (alternately APPROVED and REJECTED) and the others are at status st.
Project ==
    \E status \in JobStatuses, total \in 0..MaxProjected,
       st \in {"PENDING", "REVIEW_STARTED"} :
        \E completed \in 0..total :
            /\ ~projector.done
            /\ projector' = [status |-> status, total |-> total, completed |-> completed,
                             out |-> CalculateProgress(status,
                                        [i \in 1..total |->
                                            IF i > completed THEN st
                                            ELSE IF i % 2 = 1 THEN "APPROVED"
                                                 ELSE "REJECTED"]),
                             done |-> TRUE]
            /\ UNCHANGED <<pipeline, api, rag, agentRun, deep>>

NextProjector == Project

----------------------------------------------------------------------------
\* Agent.run (src/src/agents/base.py): the tool loop of one agent call.

MaxTurns == 5             \* max_turns = 5

\* self.tools: the tools the agent was built with. In this run web_search
\* works and rag_search raises; the LLM may also name a tool that is not
\* registered.
RegisteredTools == {"web_search", "rag_search"}

\* What a registered tool does when it is run.
ToolRaises(name) == name = "rag_search"

\* tool_output for a tool call of that name.
ToolOutput(name) ==
    IF name \in RegisteredTools
    THEN IF ToolRaises(name) THEN "Error executing tool" ELSE "result"
    ELSE "Tool not found"

\* The tool calls of the response of a turn: the names the LLM chose, with
\* the ids the provider gave them.
ToolCallsOf(turn, names) ==
    [k \in DOMAIN names |-> [id |-> <<turn, k>>, name |-> names[k]]]

\* What a response can ask for: no tool, or up to MaxToolCalls tools.
ToolRequests ==
    UNION {[1..n -> RegisteredTools \cup {"unknown_tool"}] : n \in 0..MaxToolCalls}

\* A tool loop that passes over a call of a tool it does not have.
ToolMessagesRegisteredOnly(tc) ==
    IF tc.name \in RegisteredTools
    THEN <<[role |-> "tool", tool_call_id |-> tc.id, name |-> tc.name,
            content |-> ToolOutput(tc.name), tool_calls |-> <<>>]>>
    ELSE <<>>

\* The messages appended to messages_to_send for one tool call.
ToolMessages(tc) ==
    <<[role |-> "tool", tool_call_id |-> tc.id, name |-> tc.name,
       content |-> ToolOutput(tc.name), tool_calls |-> <<>>]>>

\* A message without tool fields. The content of the response of a turn is
\* written <<"content", turn>>.
PlainMessage(role, content, tool_calls) ==
    [role |-> role, tool_call_id |-> <<>>, name |-> "none", content |-> content,
     tool_calls |-> tool_calls]

\* A loop that allows one turn more.
WhileTurnsInclusive(current_turn) == current_turn <= MaxTurns

\* while current_turn < max_turns
WhileTurns(current_turn) == current_turn < MaxTurns

\* Before run is called. logFailed: some AgentLog of the run could not be
\* persisted.
AgentAtRest ==
    [pc |-> "idle", turn |-> 0, messages |-> <<>>, todo |-> <<>>, result |-> "none",
     logFailed |-> FALSE]

\* log_event's database part: the insert succeeds or raises, and the except
\* branch only prints.
LogOutcomes == {"logged", "log_failed"}

\* run up to the loop: the user message is logged and messages_to_send is
\* the system prompt followed by the history.
AgentStart ==
    \E log \in LogOutcomes :
        /\ agentRun.pc = "idle"
        /\ agentRun' = [agentRun EXCEPT
                           !.pc = "generate",
                           !.messages = <<PlainMessage("system", "instructions", <<>>),
                                          PlainMessage("user", "user_input", <<>>)>>,
                           !.logFailed = (log = "log_failed")]
        /\ UNCHANGED <<pipeline, api, rag, projector, deep>>

\* The loop test and one turn up to "if not tool_calls: return content". A
\* generate that raises ends the run with the exception. When the loop test
\* fails the run returns "Max turns reached.".
AgentGenerate ==
    /\ agentRun.pc = "generate"
    /\ IF ~WhileTurns(agentRun.turn)
       THEN agentRun' = [agentRun EXCEPT !.pc = "returned",
                                         !.result = "Max turns reached."]
       ELSE \E names \in ToolRequests, outcome \in {"response", "raise"}, log \in LogOutcomes :
               LET turn       == agentRun.turn + 1
                   tool_calls == ToolCallsOf(turn, names)
               IN  agentRun' =
                       IF outcome = "raise"
                       THEN [agentRun EXCEPT !.pc = "raised", !.turn = turn]
                       ELSE [agentRun EXCEPT
                               !.turn = turn,
                               !.messages = Append(@, PlainMessage("assistant",
                                                       <<"content", turn>>, tool_calls)),
                               !.logFailed = @ \/ log = "log_failed",
                               !.pc = IF tool_calls = <<>> THEN "returned" ELSE "tools",
                               !.todo = tool_calls,
                               !.result = IF tool_calls = <<>> THEN <<"content", turn>>
                                          ELSE @]
    /\ UNCHANGED <<pipeline, api, rag, projector, deep>>

\* One pass of "for tc in tool_calls".
AgentTool ==
    \E log \in LogOutcomes :
        /\ agentRun.pc = "tools"
        /\ agentRun' = [agentRun EXCEPT
                           !.messages = @ \o ToolMessages(Head(agentRun.todo)),
                           !.logFailed = @ \/ log = "log_failed",
                           !.todo = Tail(@),
                           !.pc = IF Tail(agentRun.todo) = <<>> THEN "generate" ELSE "tools"]
        /\ UNCHANGED <<pipeline, api, rag, projector, deep>>

NextAgent == AgentStart \/ AgentGenerate \/ AgentTool

----------------------------------------------------------------------------
\* _run_deep_search (src/src/tools/tavily_tool.py).

MaxQueries == 4           \* "for q in queries[:4]"

\* The query of the search, and the texts the LLM's answer can hold on a
\* line: the query itself, two other queries, or nothing but blanks.
OriginalQuery == "original"
QueryTexts == {OriginalQuery, "sub1", "sub2"}

\* What llm.generate does for the sub-query prompt: it raises, or it answers
\* with lines of text.
LlmAnswers ==
    {[raised |-> TRUE, lines |-> <<>>]}
        \cup {[raised |-> FALSE, lines |-> l] : l \in UNION {[1..n -> QueryTexts \cup {""}] : n \in 0..MaxLines}}

Min2(a, b) == IF a < b THEN a ELSE b

\* The list "queries" before the searches: the non-blank lines of the LLM's
\* answer (the query alone when there is none or the LLM raised), with the
\* query inserted in front only "if query not in queries".
DeepQueries(query, llm) ==
    LET stripped == SelectSeq(llm.lines, LAMBDA q : q # "")
        queries  == IF llm.raised \/ stripped = <<>> THEN <<query>> ELSE stripped
    IN  IF \E i \in DOMAIN queries : queries[i] = query THEN queries ELSE <<query>> \o queries

\* results_per_query = max(2, max_results // len(queries))
ResultsPerQuery(max_results, queries) ==
    IF max_results \div Len(queries) > 2 THEN max_results \div Len(queries) ELSE 2

\* What Tavily finds for a query, best first: one page every query finds and
\* pages of its own.
Hits(q) == <<<<"shared", 0>>, <<q, 1>>, <<q, 2>>>>

\* resp["results"] of client.search(query = q, max_results = n).
SearchResults(q, n) == SubSeq(Hits(q), 1, Min2(n, Len(Hits(q))))

\* all_results after the loop over queries[:4]: a query whose search raises
\* adds nothing.
RECURSIVE AllResults(_, _, _)
AllResults(queries, failing, n) ==
    IF queries = <<>> THEN <<>>
    ELSE (IF Head(queries) \in failing THEN <<>> ELSE SearchResults(Head(queries), n))
             \o AllResults(Tail(queries), failing, n)

\* "Deduplicate by URL": the first result of each URL, in order.
RECURSIVE UniqueResults(_, _)
UniqueResults(results, seen) ==
    IF results = <<>> THEN <<>>
    ELSE IF Head(results) \in seen THEN UniqueResults(Tail(results), seen)
    ELSE <<Head(results)>> \o UniqueResults(Tail(results), seen \cup {Head(results)})

\* _run_deep_search: the queries sent to client.search, in order, and the
\* URLs of final_results.
RunDeepSearch(query, llm, failing, max_results) ==
    LET queries == DeepQueries(query, llm)
        asked   == SubSeq(queries, 1, Min2(MaxQueries, Len(queries)))
        unique  == UniqueResults(AllResults(asked, failing,
                                            ResultsPerQuery(max_results, queries)), {})
    IN  [asked |-> asked,
         results |-> SubSeq(unique, 1, Min2(max_results * 2, Len(unique)))]

\* No deep search yet.
DeepAtRest ==
    [done |-> FALSE, llm |-> [raised |-> TRUE, lines |-> <<>>], failing |-> {},
     max_results |-> 1, asked |-> <<>>, results |-> <<>>]

\* One tavily_search(query, deep_search = True) with any answer of the LLM,
\* any set of queries whose search raises, and any max_results.
DeepSearch ==
    \E llm \in LlmAnswers, failing \in SUBSET QueryTexts, max_results \in 1..MaxResults :
        LET out == RunDeepSearch(OriginalQuery, llm, failing, max_results) IN
        /\ ~deep.done
        /\ deep' = [done |-> TRUE, llm |-> llm, failing |-> failing,
                    max_results |-> max_results, asked |-> out.asked,
                    results |-> out.results]
        /\ UNCHANGED <<pipeline, api, rag, projector, agentRun>>

NextDeep == DeepSearch

----------------------------------------------------------------------------
\* The chunk store: save_chunks and search_similar_chunks (src/src/db/vector.py).
\* Times are clock ticks. The pipeline specifications follow save_chunks by
\* its outcome (chunkSaves); the rows it writes are followed here.

MinChunkLength == 50      \* "if len(chunk_text) < 50: continue"
EmbeddingDim == 1024      \* Vector(1024); "dimensions": 1024

NoAge == -1               \* max_age_days = None

\* A paragraph of the flattened report (an element of raw_chunks): its length
\* after strip, what llm_provider.get_embedding does for it, and how far its
\* embedding lies from the query of a later search.
ParagraphLengths == {MinChunkLength - 1, MinChunkLength}
EmbeddingOutcomes == {"vector", "raise"}
Distances == {1, 2}
Paragraphs == [len : ParagraphLengths, embed : EmbeddingOutcomes, dist : Distances]

SeqsUpTo(S, n) == UNION {[1..k -> S] : k \in 0..n}

\* Nothing stored, no save and no search yet.
RagAtRest ==
    [chunks |-> <<>>, now |-> 0,
     saved  |-> [batch |-> <<>>, written |-> 0, done |-> "none"],
     query  |-> [max_age_days |-> NoAge, limit |-> 0, found |-> {}, done |-> FALSE]]

NoSave == RagAtRest.saved
NoQuery == RagAtRest.query

\* The ResearchChunk built for a paragraph; created_at is the server's now().
ChunkOf(para, now) ==
    [content |-> para.len, embedding |-> EmbeddingDim, dist |-> para.dist, created_at |-> now]

\* A paragraph save_chunks makes no chunk of: under 50 characters
\* ("continue"), or get_embedding raised (the except's "continue").
Unusable(para) == para.len < MinChunkLength \/ para.embed = "raise"

\* A save_chunks that stops at the first paragraph it cannot use.
BuildChunksUntilFailure(batch, now) ==
    LET bad == {i \in DOMAIN batch : Unusable(batch[i])}
        n   == IF bad = {} THEN Len(batch)
               ELSE (CHOOSE i \in bad : \A k \in bad : i <= k) - 1
    IN  [i \in 1..n |-> ChunkOf(batch[i], now)]

\* The loop of save_chunks over raw_chunks: the chunks of the paragraphs it
\* can use, in their order.
BuildChunks(batch, now) ==
    LET kept == SelectSeq(batch, LAMBDA para : ~Unusable(para))
    IN  [i \in 1..Len(kept) |-> ChunkOf(kept[i], now)]

\* save_chunks: "if chunks: db.add_all(chunks); db.commit()". The commit can
\* fail, and then no row of the batch is written.
SaveChunks ==
    \E batch \in SeqsUpTo(Paragraphs, MaxParagraphs), commit \in {"ok", "db_error"} :
        LET built == BuildChunks(batch, rag.now) IN
        /\ Len(rag.chunks) + Len(built) <= MaxChunks
        /\ commit = "db_error" => built # <<>>
        /\ rag' = [rag EXCEPT
                      !.chunks = IF commit = "ok" THEN rag.chunks \o built ELSE rag.chunks,
                      !.saved  = [batch |-> batch,
                                  written |-> IF commit = "ok" THEN Len(built) ELSE 0,
                                  done |-> commit],
                      !.query  = NoQuery]
        /\ UNCHANGED <<pipeline, api, projector, agentRun, deep>>

\* An age filter that leaves out the chunk created exactly at the cutoff.
EligibleStrictlyAfter(chunks, now, max_age_days) ==
    {c \in DOMAIN chunks :
        max_age_days # NoAge => chunks[c].created_at > now - max_age_days * TicksPerDay}

\* "created_at >= cutoff" with cutoff = utcnow() - timedelta(days=max_age_days),
\* applied only when max_age_days is not None.
Eligible(chunks, now, max_age_days) ==
    {c \in DOMAIN chunks :
        max_age_days # NoAge => chunks[c].created_at >= now - max_age_days * TicksPerDay}

\* order_by(cosine_distance).limit(limit): the results the query can give
\* (rows at the same distance come in any order).
Nearest(chunks, among, limit) ==
    {S \in SUBSET among :
        /\ Cardinality(S) = (IF Cardinality(among) < limit THEN Cardinality(among) ELSE limit)
        /\ \A a \in S, b \in among \ S : chunks[a].dist <= chunks[b].dist}

SearchSimilarChunks(chunks, now, max_age_days, limit) ==
    Nearest(chunks, Eligible(chunks, now, max_age_days), limit)

Search ==
    \E max_age_days \in {NoAge} \cup (0..MaxAgeDays), limit \in 1..MaxChunks :
        \E found \in SearchSimilarChunks(rag.chunks, rag.now, max_age_days, limit) :
            /\ rag' = [rag EXCEPT !.query = [max_age_days |-> max_age_days, limit |-> limit,
                                             found |-> found, done |-> TRUE],
                                  !.saved = NoSave]
            /\ UNCHANGED <<pipeline, api, projector, agentRun, deep>>

\* Time passes.
RagTick ==
    /\ rag.now < MaxClock
    /\ rag' = [rag EXCEPT !.now = rag.now + 1, !.saved = NoSave, !.query = NoQuery]
    /\ UNCHANGED <<pipeline, api, projector, agentRun, deep>>

NextRag == SaveChunks \/ Search \/ RagTick

----------------------------------------------------------------------------
\* State after create_research has committed the job row and enqueued
\* start_research_chain (src/src/api/main.py, lines 129-139).

Init ==
    /\ job = [status |-> "pending", description |-> "null", report |-> "null",
              final_critique |-> "null"]
    /\ tasks = <<>>
    /\ queue = SetToBag({Msg("start_research_chain", 0, "idea")})
    /\ running = EmptyBag
    /\ raised = 0
    /\ rejected = 0
    /\ overlaps = 0
    /\ genCount = 0
    /\ aggEnq = 0
    /\ reached = {}
    /\ redelivered = 0
    /\ chunkSaves = 0
    /\ skipped = 0
    /\ critic = "none"
    /\ planner = "none"
    /\ rag = RagAtRest
    /\ projector = ProjectorAtRest
    /\ agentRun = AgentAtRest
    /\ deep = DeepAtRest
    /\ api = ApiAtRest

\* start_research_chain: builds chain(enrich_idea, plan_research) and sends it.
StartChain ==
    \E m \in BagToSet(queue) :
        /\ m.kind = "start_research_chain"
        /\ queue' = Put(Take(queue, m), Msg("enrich_idea", 0, m.arg))
        /\ UNCHANGED <<job, tasks, running, raised, rejected, overlaps, genCount, aggEnq, reached, redelivered, chunkSaves, skipped, api>>
        /\ critic' = "none"
        /\ UNCHANGED helpers
        /\ planner' = "none"

\* A worker takes a message whose handler begins with its agent call
\* (enrich_idea, plan_research, final_critique_task): nothing is read yet.
AgentFirstKinds == {"enrich_idea", "plan_research", "final_critique"}

BeginHandler ==
    \E m \in BagToSet(queue) :
        /\ m.kind \in AgentFirstKinds
        /\ WorkerFree
        /\ queue' = Take(queue, m)
        /\ running' = Put(running, Exec(m, "agent", "none"))
        /\ UNCHANGED <<job, tasks, raised, rejected, overlaps, genCount, aggEnq, reached, redelivered, chunkSaves, skipped, api>>
        /\ critic' = "none"
        /\ UNCHANGED helpers
        /\ planner' = "none"

\* enrich_idea after its agent call. The chain passes the return value on to
\* plan_research: the enriched text, or the idea when the agent raised.
EnricherOutcomes == {"ok", "raise"}

\* Mutant of EnrichJob: a failed enrichment marks the job failed.
EnrichJobMarksFailed(j, outcome) ==
    IF outcome = "ok"
    THEN [j EXCEPT !.description = "enriched", !.status = "processing"]
    ELSE [j EXCEPT !.status = "failed"]

EnrichJob(j, outcome) ==
    IF outcome = "ok"
    THEN [j EXCEPT !.description = "enriched", !.status = "processing"]
    ELSE j

\* An enrich_idea that returns nothing when the enricher fails.
EnrichReturnsNone(idea, outcome) == IF outcome = "ok" THEN "enriched" ELSE "null"

EnrichReturn(idea, outcome) == IF outcome = "ok" THEN "enriched" ELSE idea

EnrichFinish ==
    \E r \in BagToSet(running), outcome \in EnricherOutcomes :
        /\ r.kind = "enrich_idea" /\ r.pc = "agent"
        /\ job' = EnrichJob(job, outcome)
        /\ queue' = Put(queue, Msg("plan_research", 0, EnrichReturn(r.arg, outcome)))
        /\ running' = Finish(r)
        /\ outcome = "raise" => Calm
        /\ raised' = raised + (IF outcome = "raise" THEN 1 ELSE 0)
        /\ UNCHANGED <<rejected, overlaps, tasks, genCount, aggEnq, reached, redelivered, chunkSaves, skipped, api>>
        /\ critic' = "none"
        /\ UNCHANGED helpers
        /\ planner' = "none"

\* plan_research after its agent call. "list" is a JSON array of k titles,
\* "notlist" any other JSON value, "badjson" text json.loads rejects.
PlannerOutcomes == {"list", "notlist", "badjson", "raise"}

\* A plan_research that writes no fallback task when the output fails to parse.
PlannedCountNoFallback(outcome, k) == IF outcome = "list" THEN k ELSE IF outcome = "notlist" THEN 1 ELSE 0

PlannedCount(outcome, k) == IF outcome = "list" THEN k ELSE IF outcome = "raise" THEN 0 ELSE 1

PlanEnqueuesSupervisor(outcome) == outcome # "raise"

\* The rows plan_research adds: one per title of the planner's list, or the
\* single row titled with the description it was called with.
PlannedTasks(outcome, k, description) ==
    IF outcome = "list" THEN NewTasks(k)
    ELSE [x \in 1..PlannedCount(outcome, k) |-> [NewTask EXCEPT !.title = description]]

PlanFinish ==
    \E r \in BagToSet(running), outcome \in PlannerOutcomes, k \in 0..MaxTasks :
        /\ r.kind = "plan_research" /\ r.pc = "agent"
        /\ outcome # "list" => k = 0
        /\ Len(tasks) + PlannedCount(outcome, k) <= MaxTasks
        /\ tasks' = tasks \o PlannedTasks(outcome, k, r.arg)
        /\ planner' = IF outcome = "raise" THEN "none" ELSE outcome
        /\ IF PlanEnqueuesSupervisor(outcome)
           THEN queue' = Put(queue, Msg("supervisor_loop", 0, "job"))
           ELSE queue' = queue
        /\ running' = Finish(r)
        /\ outcome = "raise" => Calm
        /\ raised' = raised + (IF outcome = "raise" THEN 1 ELSE 0)
        /\ UNCHANGED <<rejected, overlaps, job, genCount, aggEnq, reached, redelivered, chunkSaves, skipped, api>>
        /\ critic' = "none"
        /\ UNCHANGED helpers

----------------------------------------------------------------------------
\* Task-level phase handlers: generate_hypotheses_task, perform_research_task,
\* score_evidence_task, find_contradictions_task, review_task.

\* The handler opens its session and loads the task row, then calls its agent.
\* (Task rows are never deleted, so the "if not task: return" exit is taken
\* only for an id that names no row.)
HandlerStart ==
    \E m \in BagToSet(queue) :
        /\ m.kind \in TaskHandlers
        /\ WorkerFree
        /\ queue' = Take(queue, m)
        /\ running' = IF m.task \in DOMAIN tasks
                      THEN Put(running, [Exec(m, "agent", tasks[m.task].status)
                                           EXCEPT !.locfb = tasks[m.task].feedback])
                      ELSE running
        /\ UNCHANGED <<job, tasks, raised, rejected, overlaps, genCount, aggEnq, reached, redelivered, chunkSaves, skipped, api>>
        /\ critic' = "none"
        /\ UNCHANGED helpers
        /\ planner' = "none"

\* What the agent call of a handler can come to: "ok" is output the handler
\* parses, "badjson" output json.loads rejects, "raise" an exception; for the
\* critic "approve" and "reject" are parsed verdicts.
HandlerOutcomes(kind) ==
    CASE kind = "perform_research" -> {"ok", "raise"}
      [] kind = "review"           -> {"approve", "reject", "badjson", "raise"}
      [] OTHER                     -> {"ok", "badjson", "raise"}

\* The texts a critic can return, by what review does with them: a JSON object
\* whose "approved" is true; one whose "approved" is false, null or absent; one
\* whose "approved" is another value Python takes for true (the string
\* "false", a number, a list); JSON that is no object, on which .get raises
\* inside the parsing try; and text json.loads rejects.
CriticOutputs == {"approved_true", "approved_false", "approved_other", "not_object", "not_json"}

\* json.loads(clean_json_string(response_json)) returns a value.
CriticParses(out) == out # "not_json"

\* The path review takes on a critic output:
\* "if review.get('approved', False)" inside the parsing try.
ReviewVerdict(out) ==
    CASE out \in {"approved_true", "approved_other"} -> "approve"
      [] out = "approved_false"                       -> "reject"
      [] out \in {"not_object", "not_json"}           -> "badjson"

\* The agent outputs that take a handler down the path "outcome".
AgentOutputs(kind, outcome) ==
    IF kind = "review" /\ outcome # "raise"
    THEN {out \in CriticOutputs : ReviewVerdict(out) = outcome}
    ELSE {"none"}

\* Whether the handler reaches a commit and supervisor_loop.delay on this path.
HandlerCommits(kind, outcome) == ~(kind = "review" /\ outcome = "raise")

\* The status the handler assigns on this path.
HandlerStatus(kind, outcome) ==
    CASE kind = "generate_hypotheses" -> "HYPOTHESIZED"
      [] kind = "perform_research"    -> IF outcome = "ok" THEN "RESEARCHED" ELSE "REJECTED"
      [] kind = "score_evidence"      -> "SCORED"
      [] kind = "find_contradictions" -> "CONTRADICTED"
      [] kind = "review"              -> IF outcome = "approve" THEN "APPROVED" ELSE "REJECTED"

\* A perform_research that records no feedback when the researcher fails.
HandlerFeedbackCriticOnly(kind, outcome) ==
    CASE kind = "review" /\ outcome = "reject"          -> "critic"
      [] kind = "review" /\ outcome = "badjson"         -> "parse_error"
      [] OTHER                                          -> "keep"

\* The feedback the handler assigns on this path ("keep": it assigns none).
HandlerFeedback(kind, outcome) ==
    CASE kind = "perform_research" /\ outcome = "raise" -> "system_error"
      [] kind = "review" /\ outcome = "reject"          -> "critic"
      [] kind = "review" /\ outcome = "badjson"         -> "parse_error"
      [] OTHER                                          -> "keep"

\* A researcher that does not store what its agent returned.
HandlerSetsNoResult(kind, outcome) == FALSE

\* Whether the handler assigns task.result on this path.
HandlerSetsResult(kind, outcome) == kind = "perform_research" /\ outcome = "ok"

\* The critic did not approve: a parsed rejection, or output that fails to parse.
HandlerRejects(kind, outcome) == kind = "review" /\ outcome \in {"reject", "badjson"}

\* The handlers whose agent output is optional, and the column each fills.
SoftHandlers == {"generate_hypotheses", "score_evidence", "find_contradictions"}

PayloadField(kind) ==
    CASE kind = "generate_hypotheses" -> "hypotheses"
      [] kind = "score_evidence"      -> "evidence_rating"
      [] kind = "find_contradictions" -> "contradictions"

\* The columns the handler assigns a parsed value on this path: the assignment
\* is the statement json.loads would have fed, so a failure assigns nothing.
HandlerPayload(kind, outcome) ==
    IF kind \in SoftHandlers /\ outcome = "ok" THEN {PayloadField(kind)} ELSE {}

\* json.loads rejected the output of a soft-signal agent.
HandlerSkips(kind, outcome) == kind \in SoftHandlers /\ outcome = "badjson"

HandlerWrite(row, r, outcome) ==
    [status   |-> OrmSet(r.loc, HandlerStatus(r.kind, outcome), row.status),
     title    |-> row.title,
     payload  |-> row.payload \cup HandlerPayload(r.kind, outcome),
     result   |-> (row.result \/ HandlerSetsResult(r.kind, outcome)),
     feedback |-> IF HandlerFeedback(r.kind, outcome) = "keep"
                  THEN row.feedback
                  ELSE OrmSet(r.locfb, HandlerFeedback(r.kind, outcome), row.feedback)]

HandlerFinish ==
    \E r \in BagToSet(running) :
        /\ r.kind \in TaskHandlers /\ r.pc = "agent"
        /\ \E outcome \in HandlerOutcomes(r.kind) :
            /\ IF HandlerCommits(r.kind, outcome)
               THEN /\ tasks' = [tasks EXCEPT ![r.task] = HandlerWrite(tasks[r.task], r, outcome)]
                    /\ queue' = Put(queue, Msg("supervisor_loop", 0, "job"))
               ELSE UNCHANGED <<tasks, queue>>
            /\ (outcome = "raise" \/ HandlerRejects(r.kind, outcome)) => Calm
            /\ HandlerSkips(r.kind, outcome)
                   => skipped < MaxSkip /\ raised + overlaps + redelivered = 0
            /\ raised' = raised + (IF outcome = "raise" THEN 1 ELSE 0)
            /\ skipped' = skipped + (IF HandlerSkips(r.kind, outcome) THEN 1 ELSE 0)
            /\ rejected' = rejected + (IF HandlerRejects(r.kind, outcome) THEN 1 ELSE 0)
            /\ critic' \in AgentOutputs(r.kind, outcome)
            /\ UNCHANGED helpers
            /\ planner' = "none"
        /\ running' = Finish(r)
        /\ reached' = reached \cup {t \in DOMAIN tasks' : tasks'[t].status = "APPROVED"}
        /\ UNCHANGED <<overlaps, job, genCount, aggEnq, redelivered, chunkSaves, api>>

----------------------------------------------------------------------------
\* aggregate_report and final_critique_task.

\* aggregate_report opens its session and lists the APPROVED tasks; with none
\* it returns at once, otherwise it calls the reporter.
AggregateStart ==
    \E m \in BagToSet(queue) :
        /\ m.kind = "aggregate_report"
        /\ WorkerFree
        /\ queue' = Take(queue, m)
        /\ running' = IF ApprovedTasks = {} THEN running
                      ELSE Put(running, Exec(m, "agent", "none"))
        /\ UNCHANGED <<job, tasks, raised, rejected, overlaps, genCount, aggEnq, reached, redelivered, chunkSaves, skipped, api>>
        /\ critic' = "none"
        /\ UNCHANGED helpers
        /\ planner' = "none"

\* "json": the reporter's text parses as a JSON object; "text": it does not
\* parse and is wrapped as {content, format: "plain_text"}; "raise".
ReporterOutcomes == {"json", "text", "raise"}

AggregateDraft(outcome) == "draft"

AggregateFail(j) == [j EXCEPT !.status = "failed", !.report = "error"]

\* A failure of the reporter is followed together with one other disturbance.
AggregateFinish ==
    \E r \in BagToSet(running), outcome \in ReporterOutcomes :
        /\ r.kind = "aggregate_report" /\ r.pc = "agent"
        /\ IF outcome = "raise"
           THEN job' = AggregateFail(job) /\ queue' = queue
           ELSE /\ queue' = Put(queue, Msg("final_critique", 0, AggregateDraft(outcome)))
                /\ job' = job
        /\ running' = Finish(r)
        /\ outcome = "raise" => raised < MaxDisturb
        /\ raised' = raised + (IF outcome = "raise" THEN 1 ELSE 0)
        /\ UNCHANGED <<rejected, overlaps, tasks, genCount, aggEnq, reached, redelivered, chunkSaves, skipped, api>>
        /\ critic' = "none"
        /\ UNCHANGED helpers
        /\ planner' = "none"

\* "approve" / "reject": the critique parses with that verdict; "text": it
\* does not parse and is taken as approved with the text as feedback;
\* "raise": the agent call (or reading the verdict) raises and the fallback
\* saves the draft.
FinalCriticOutcomes == {"approve", "reject", "text", "raise"}

FinalCritiqueValue(j, outcome) ==
    IF outcome = "raise" THEN j.final_critique ELSE "recorded"

FinalCritiqueJob(j, draft, outcome) ==
    [j EXCEPT !.report = draft,
              !.final_critique = FinalCritiqueValue(j, outcome),
              !.status = "completed"]

\* Whether final_critique_task calls save_chunks on this path: the critique
\* counts as approved (a plain-text critique does).
FinalCritiqueSaves(outcome) == outcome \in {"approve", "text"}

\* What the save_chunks call can come to. "saved": it returns, having
\* committed the chunks it built. "raise": it raises before its own commit
\* (get_llm_provider, or flattening the report). "db_error": its db.commit()
\* fails; the session rolls the transaction back, and with it the report, the
\* critique and the status assigned to the job row just before, so the
\* db.commit() that follows the except has nothing left to write.
SaveChunksOutcomes == {"saved", "raise", "db_error"}

\* The save_chunks outcomes on a path of final_critique_task ("none": the
\* path does not call it).
FinalCritiqueSaveOutcomes(outcome) ==
    IF FinalCritiqueSaves(outcome) THEN SaveChunksOutcomes ELSE {"none"}

FinalCritiqueFinish ==
    \E r \in BagToSet(running), outcome \in FinalCriticOutcomes :
        /\ r.kind = "final_critique" /\ r.pc = "agent"
        /\ \E sv \in FinalCritiqueSaveOutcomes(outcome) :
            /\ job' = IF sv = "db_error" THEN job
                      ELSE FinalCritiqueJob(job, r.arg, outcome)
            /\ chunkSaves' = IF sv = "saved" THEN Inc(chunkSaves) ELSE chunkSaves
            /\ (outcome = "raise" \/ sv \in {"raise", "db_error"}) => Calm
            /\ raised' = raised + (IF outcome = "raise" \/ sv \in {"raise", "db_error"}
                                   THEN 1 ELSE 0)
        /\ running' = Finish(r)
        /\ UNCHANGED <<rejected, overlaps, tasks, queue, genCount, aggEnq, reached, redelivered, skipped, api>>
        /\ critic' = "none"
        /\ UNCHANGED helpers
        /\ planner' = "none"

----------------------------------------------------------------------------
\* supervisor_loop.

\* The position after the loop body for task r.i: the next task, or after the
\* last one the aggregation check ("if all_approved and tasks").
SupAfter(r) ==
    IF r.i < r.n THEN [r EXCEPT !.pc = "scan", !.i = r.i + 1]
    ELSE IF r.allApproved /\ r.n > 0 THEN [r EXCEPT !.pc = "jobread"]
    ELSE [r EXCEPT !.pc = "done"]

\* The supervisor opens its session and queries all tasks of the job.
SupStart ==
    \E m \in BagToSet(queue) :
        /\ m.kind = "supervisor_loop"
        /\ WorkerFree
        /\ SupRunning => Calm
        /\ overlaps' = overlaps + (IF SupRunning THEN 1 ELSE 0)
        /\ queue' = Take(queue, m)
        /\ running' = IF Len(tasks) = 0 THEN running
                      ELSE Put(running, [Exec(m, "scan", "none") EXCEPT
                                            !.n = Len(tasks), !.i = 1,
                                            !.snap = [t \in DOMAIN tasks |-> tasks[t].status]])
        /\ UNCHANGED <<job, tasks, raised, rejected, genCount, aggEnq, reached, redelivered, chunkSaves, skipped, api>>
        /\ critic' = "none"
        /\ UNCHANGED helpers
        /\ planner' = "none"

\* The status the loop body sees for task r.i: the value of the query until
\* the run's first commit; a commit expires the session's rows, and the next
\* attribute access loads the row again.
SupSeen(r) == IF r.committed THEN tasks[r.i].status ELSE r.snap[r.i]

\* The if/elif chain on task.status.
SupScan ==
    \E r \in BagToSet(running) :
        /\ r.kind = "supervisor_loop" /\ r.pc = "scan"
        /\ running' =
             IF SupervisorDispatches(SupSeen(r))
             THEN Continue(r, [r EXCEPT !.pc = "commit", !.loc = SupSeen(r),
                                        !.allApproved = FALSE])
             ELSE IF SupSeen(r) # "APPROVED"
             THEN Continue(r, SupAfter([r EXCEPT !.allApproved = FALSE]))
             ELSE Continue(r, SupAfter(r))
        /\ UNCHANGED <<job, tasks, queue, raised, rejected, overlaps, genCount, aggEnq, reached, redelivered, chunkSaves, skipped, api>>
        /\ critic' = "none"
        /\ UNCHANGED helpers
        /\ planner' = "none"

\* task.status = <sentinel>; db.commit()
SupCommit ==
    \E r \in BagToSet(running) :
        /\ r.kind = "supervisor_loop" /\ r.pc = "commit"
        /\ tasks' = [tasks EXCEPT ![r.i].status = SentinelFor(r.loc)]
        /\ running' = Continue(r, [r EXCEPT !.pc = "enqueue", !.committed = TRUE,
                                            !.snap = <<>>])
        /\ UNCHANGED <<job, queue, raised, rejected, overlaps, genCount, aggEnq, reached, redelivered, chunkSaves, skipped, api>>
        /\ critic' = "none"
        /\ UNCHANGED helpers
        /\ planner' = "none"

\* <handler>.delay(task_id)
SupEnqueue ==
    \E r \in BagToSet(running) :
        /\ r.kind = "supervisor_loop" /\ r.pc = "enqueue"
        /\ queue' = Put(queue, Msg(HandlerFor(r.loc), r.i, "task"))
        /\ running' = Continue(r, SupAfter([r EXCEPT !.loc = "none"]))
        /\ UNCHANGED <<job, tasks, raised, rejected, overlaps, genCount, aggEnq, reached, redelivered, chunkSaves, skipped, api>>
        /\ critic' = "none"
        /\ UNCHANGED helpers
        /\ planner' = "none"

\* Mutant of SupAggregates: the test for "generating" is left out.
SupAggregatesIgnoresGenerating(st) == st # "completed"

\* Whether the supervisor starts aggregation for a job it read in status st.
SupAggregates(st) == st # "completed" /\ st # "generating"

\* report = db.query(ResearchReport)...first(); the status test.
SupJobRead ==
    \E r \in BagToSet(running) :
        /\ r.kind = "supervisor_loop" /\ r.pc = "jobread"
        /\ running' = IF SupAggregates(job.status)
                      THEN Continue(r, [r EXCEPT !.pc = "jobcommit", !.loc = job.status])
                      ELSE Finish(r)
        /\ UNCHANGED <<job, tasks, queue, raised, rejected, overlaps, genCount, aggEnq, reached, redelivered, chunkSaves, skipped, api>>
        /\ critic' = "none"
        /\ UNCHANGED helpers
        /\ planner' = "none"

\* report.status = "generating"; db.commit()
SupJobCommit ==
    \E r \in BagToSet(running) :
        /\ r.kind = "supervisor_loop" /\ r.pc = "jobcommit"
        /\ job' = [job EXCEPT !.status = "generating"]
        /\ genCount' = Inc(genCount)
        /\ running' = Continue(r, [r EXCEPT !.pc = "jobenqueue", !.loc = "none"])
        /\ UNCHANGED <<tasks, queue, raised, rejected, overlaps, aggEnq, reached, redelivered, chunkSaves, skipped, api>>
        /\ critic' = "none"
        /\ UNCHANGED helpers
        /\ planner' = "none"

\* aggregate_report.delay(job_id)
SupJobEnqueue ==
    \E r \in BagToSet(running) :
        /\ r.kind = "supervisor_loop" /\ r.pc = "jobenqueue"
        /\ queue' = Put(queue, Msg("aggregate_report", 0, "job"))
        /\ aggEnq' = Inc(aggEnq)
        /\ running' = Finish(r)
        /\ UNCHANGED <<job, tasks, raised, rejected, overlaps, genCount, reached, redelivered, chunkSaves, skipped, api>>
        /\ critic' = "none"
        /\ UNCHANGED helpers
        /\ planner' = "none"

\* One uninterrupted run of supervisor_loop on task statuses ts and job status
\* js: the statuses it leaves and the messages it enqueues, in order.
RECURSIVE SupLoop(_, _)
SupLoop(acc, i) ==
    IF i > Len(acc.tasks) THEN acc
    ELSE IF SupervisorDispatches(acc.tasks[i])
    THEN SupLoop([acc EXCEPT !.tasks[i] = SentinelFor(acc.tasks[i]),
                             !.enq = Append(acc.enq, Msg(HandlerFor(acc.tasks[i]), i, "task")),
                             !.allApproved = FALSE], i + 1)
    ELSE IF acc.tasks[i] # "APPROVED"
    THEN SupLoop([acc EXCEPT !.allApproved = FALSE], i + 1)
    ELSE SupLoop(acc, i + 1)

SupervisorRun(ts, js) ==
    LET after == SupLoop([tasks |-> ts, job |-> js, enq |-> <<>>, allApproved |-> TRUE], 1)
    IN  IF after.allApproved /\ Len(ts) > 0 /\ SupAggregates(js)
        THEN [after EXCEPT !.job = "generating",
                           !.enq = Append(after.enq, Msg("aggregate_report", 0, "job"))]
        ELSE after

----------------------------------------------------------------------------
\* The broker delivers at least once: the message of an execution in progress
\* may be handed to a worker a second time.
Redeliver ==
    \E r \in BagToSet(running) :
        /\ Calm
        /\ queue' = Put(queue, MsgOf(r))
        /\ redelivered' = redelivered + 1
        /\ UNCHANGED <<job, tasks, running, raised, rejected, overlaps, genCount, aggEnq, reached, chunkSaves, skipped, api>>
        /\ critic' = "none"
        /\ UNCHANGED helpers
        /\ planner' = "none"

----------------------------------------------------------------------------
\* create_research, one action per statement that touches Redis, the database
\* or the broker. A request q is at pc "get" before the idempotency check,
\* "create" before the row insert, "cache" before setex, "enqueue" before
\* start_research_chain.delay, and "done" once it has returned api.req[q].job;
\* resp is then "status" for the answer of get_research_status_logic (the
\* job's row as it is now) and "created" for the pending/queued answer.

\* "if idempotency_key:" is false for an absent and for an empty header.
UsesCache(key) == key # ""

\* The Authorization header of a request ("": absent or empty).
AuthHeaders == {"", "secret", "Bearer secret", "Bearer Bearer secret", "Bearer wrong"}

\* Config.API_SECRET_KEY.
ConfiguredSecret == "secret"

\* The token verify_api_key compares: for a header that starts with
\* "Bearer ", the header with every "Bearer " taken out (str.replace);
\* otherwise the header as it is.
Token(header) ==
    CASE header \in {"Bearer secret", "Bearer Bearer secret"} -> "secret"
      [] header = "Bearer wrong"                                -> "wrong"
      [] OTHER                                                  -> header

\* verify_api_key lets the request through.
VerifyApiKey(enabled, header) ==
    IF ~enabled THEN TRUE
    ELSE IF header = "" THEN FALSE
    ELSE Token(header) = ConfiguredSecret

Ideas == {NoIdea, MinIdeaLength - 1, MinIdeaLength}

\* ResearchRequest: idea is required and has min_length = 5.
ValidRequest(idea) == idea # NoIdea /\ idea >= MinIdeaLength

\* The answer to a POST /research that does not reach create_research: the
\* dependency raises 403 before the body's validation errors are reported.
Rejection(enabled, header, idea) ==
    IF ~VerifyApiKey(enabled, header) THEN "403"
    ELSE IF ~ValidRequest(idea) THEN "422"
    ELSE "none"

\* An API that checks the token only after create_research has run.
PostAdmitsAll(enabled, header, idea) == "get"

\* Where a POST /research starts: in create_research, or answered at once.
PostAdmits(enabled, header, idea) ==
    IF Rejection(enabled, header, idea) = "none" THEN "get" ELSE "rejected"

\* The request arrives with its headers and its body; "enabled" is
\* Config.API_AUTH_ENABLED as the dependency reads it for this request.
PostArrive ==
    \E q \in Requests, key \in Keys, enabled \in BOOLEAN, header \in AuthHeaders, idea \in Ideas :
        /\ api.req[q].pc = "idle"
        /\ api' = [api EXCEPT !.req[q] =
                      [pc   |-> PostAdmits(enabled, header, idea),
                       key  |-> key, job |-> NoJob,
                       resp |-> Rejection(enabled, header, idea),
                       enabled |-> enabled, header |-> header, idea |-> idea]]
        /\ UNCHANGED <<pipeline, helpers>>

\* GET /health and GET /ready carry no dependency on verify_api_key: they are
\* answered whatever the header; /ready answers 503 when a store is down.
ProbeAnswers == {"health_ok", "ready_ok", "ready_503"}

ProbeArrive ==
    \E q \in Requests, enabled \in BOOLEAN, header \in AuthHeaders, answer \in ProbeAnswers :
        /\ api.req[q].pc = "idle"
        /\ api' = [api EXCEPT !.req[q] = [pc |-> "answered", key |-> "", job |-> NoJob,
                                          resp |-> answer, enabled |-> enabled,
                                          header |-> header, idea |-> NoIdea]]
        /\ UNCHANGED <<pipeline, helpers>>

\* A create_research that goes on to create a job although the key hit.
PostGetIgnoresHit ==
    \E q \in Requests :
        /\ api.req[q].pc = "get"
        /\ api' = [api EXCEPT !.req[q].pc = "create"]
        /\ UNCHANGED <<pipeline, helpers>>

\* redis_client.get: a hit returns the status of the cached job.
PostGet ==
    \E q \in Requests :
        /\ api.req[q].pc = "get"
        /\ api' = IF UsesCache(api.req[q].key) /\ api.cache[api.req[q].key] # NoJob
                  THEN [api EXCEPT !.req[q].pc = "done",
                                   !.req[q].resp = "status",
                                   !.req[q].job = api.cache[api.req[q].key]]
                  ELSE [api EXCEPT !.req[q].pc = "create"]
        /\ UNCHANGED <<pipeline, helpers>>

\* job_id = uuid.uuid4(); db.add(report); db.commit()
PostCreate ==
    \E q \in Requests :
        /\ api.req[q].pc = "create"
        /\ api' = [api EXCEPT !.req[q].pc = "cache",
                              !.req[q].job = Cardinality(api.rows) + 1,
                              !.rows = api.rows \cup {Cardinality(api.rows) + 1}]
        /\ UNCHANGED <<pipeline, helpers>>

\* redis_client.setex(key, 86400, job_id), when a key was sent.
PostCache ==
    \E q \in Requests :
        /\ api.req[q].pc = "cache"
        /\ api' = IF UsesCache(api.req[q].key)
                  THEN [api EXCEPT !.req[q].pc = "enqueue",
                                   !.cache[api.req[q].key] = api.req[q].job]
                  ELSE [api EXCEPT !.req[q].pc = "enqueue"]
        /\ UNCHANGED <<pipeline, helpers>>

\* start_research_chain.delay(idea, job_id); return the JobStatus.
PostEnqueue ==
    \E q \in Requests :
        /\ api.req[q].pc = "enqueue"
        /\ api' = [api EXCEPT !.req[q].pc = "done",
                              !.req[q].resp = "created",
                              !.chains = Append(api.chains, api.req[q].job)]
        /\ UNCHANGED <<pipeline, helpers>>

\* redis_client.get or redis_client.setex raises (the store is unreachable):
\* create_research has no handler around either call, the exception leaves
\* the endpoint and the request is answered with an error; a row committed
\* before setex stays, and start_research_chain.delay is not reached.
PostStoreFails ==
    \E q \in Requests :
        /\ api.req[q].pc \in {"get", "cache"}
        /\ UsesCache(api.req[q].key)
        /\ api' = [api EXCEPT !.req[q].pc = "error"]
        /\ UNCHANGED <<pipeline, helpers>>

\* The 24 h TTL of a cached key runs out.
CacheExpire ==
    \E k \in Keys \ {""} :
        /\ api.cache[k] # NoJob
        /\ api' = [api EXCEPT !.cache[k] = NoJob, !.expired = api.expired \cup {k}]
        /\ UNCHANGED <<pipeline, helpers>>

NextApi ==
    \/ PostArrive
    \/ ProbeArrive
    \/ PostGet
    \/ PostCreate
    \/ PostCache
    \/ PostEnqueue
    \/ PostStoreFails
    \/ CacheExpire

\* The API server alone: requests interleave, the workers are not followed.
SpecApi == Init /\ [][NextApi]_vars

Next ==
    \/ StartChain
    \/ BeginHandler
    \/ EnrichFinish
    \/ PlanFinish
    \/ HandlerStart
    \/ HandlerFinish
    \/ AggregateStart
    \/ AggregateFinish
    \/ FinalCritiqueFinish
    \/ SupStart
    \/ SupScan
    \/ SupCommit
    \/ SupEnqueue
    \/ SupJobRead
    \/ SupJobCommit
    \/ SupJobEnqueue

\* Deep web search alone.
SpecDeep == Init /\ [][NextDeep]_vars

\* One agent run alone.
SpecAgent == Init /\ [][NextAgent]_vars

\* The progress projector alone: calculate_progress on any job.
SpecProjector == Init /\ [][NextProjector]_vars

\* The chunk store alone: reports are saved and searched as time passes.
SpecRag == Init /\ [][NextRag]_vars

\* Exactly-once delivery, parallel workers.
Spec == Init /\ [][Next]_vars

\* At-least-once delivery.
SpecRedeliver == Init /\ [][Next \/ Redeliver]_vars

\* Workers keep consuming: a step that can be taken is eventually taken.
SpecLive == Spec /\ WF_vars(Next)

----------------------------------------------------------------------------
\* Properties.

\* The execution r takes its step in this transition.
Steps(r) == Count(running', r) < Count(running, r)

TaskHandlerFinishes(r) == r.kind \in TaskHandlers /\ r.pc = "agent" /\ Steps(r)

SupervisorMessages(q) == Count(q, Msg("supervisor_loop", 0, "job"))

StatusesNow == [t \in DOMAIN tasks |-> tasks[t].status]

\* The in-progress statuses a handler is dispatched for.
SentinelsOf(kind) ==
    CASE kind = "generate_hypotheses" -> {"HYPOTHESIZING_STARTED"}
      [] kind = "perform_research"    -> {"RESEARCHING_STARTED", "RESEARCHING_RETRY"}
      [] kind = "score_evidence"      -> {"SCORING_STARTED"}
      [] kind = "find_contradictions" -> {"CONTRADICTING_STARTED"}
      [] kind = "review"              -> {"REVIEW_STARTED"}

\* C1: every change of a task's status follows one edge of the task state
\* machine; in particular no status moves backward except REJECTED ->
\* RESEARCHING_RETRY.
C1_StatusFollowsEdges ==
    [][LET TaskEdges ==
               {<<"PENDING", "HYPOTHESIZING_STARTED">>, <<"HYPOTHESIZING_STARTED", "HYPOTHESIZED">>,
                <<"HYPOTHESIZED", "RESEARCHING_STARTED">>, <<"RESEARCHING_STARTED", "RESEARCHED">>,
                <<"RESEARCHED", "SCORING_STARTED">>, <<"SCORING_STARTED", "SCORED">>,
                <<"SCORED", "CONTRADICTING_STARTED">>, <<"CONTRADICTING_STARTED", "CONTRADICTED">>,
                <<"CONTRADICTED", "REVIEW_STARTED">>, <<"REVIEW_STARTED", "APPROVED">>,
                <<"REVIEW_STARTED", "REJECTED">>, <<"REJECTED", "RESEARCHING_RETRY">>,
                <<"RESEARCHING_RETRY", "RESEARCHED">>, <<"RESEARCHING_STARTED", "REJECTED">>,
                <<"RESEARCHING_RETRY", "REJECTED">>}
       IN  \A t \in DOMAIN tasks :
               tasks'[t].status # tasks[t].status
                   => <<tasks[t].status, tasks'[t].status>> \in TaskEdges]_vars

\* C2: of supervisor runs that observed the same task in a dispatchable
\* status only one performs the transition to the sentinel and enqueues: a
\* supervisor that commits a sentinel (and goes on to enqueue the handler)
\* finds the task still in the status it observed.
C2_OneSupervisorDispatches ==
    [][\A r \in BagToSet(running) :
          (r.kind = "supervisor_loop" /\ r.pc = "commit" /\ Steps(r))
              => tasks[r.i].status = r.loc]_vars

\* C3: job.status is set to "generating" at most once and aggregate_report is
\* enqueued at most once for the job.
C3_AggregationOnce == genCount <= 1 /\ aggEnq <= 1

\* C4: a completed job has every task APPROVED at some time, a report, and a
\* recorded final critique.
C4_CompletedJob ==
    job.status = "completed"
        => /\ \A t \in DOMAIN tasks : t \in reached
           /\ job.report # "null"
           /\ job.final_critique # "null"

\* The step in which aggregate_report handles an exception of its reporter.
AggregateRaises ==
    \E r \in BagToSet(running) :
        r.kind = "aggregate_report" /\ r.pc = "agent" /\ Steps(r) /\ raised' = raised + 1

\* The step in which the agent of task handler r raises.
TaskHandlerRaises(r) == TaskHandlerFinishes(r) /\ raised' = raised + 1

FailedOnlyByAggregation == (job'.status = "failed" /\ job.status # "failed") => AggregateRaises

Stable ==
    /\ \A t \in DOMAIN tasks : tasks[t].status \in Sentinels \cup {"APPROVED"}
    /\ (Len(tasks) > 0 /\ \A t \in DOMAIN tasks : tasks[t].status = "APPROVED")
           => job.status \in {"generating", "completed"}

C6_SupervisorIdempotent ==
    LET once  == SupervisorRun(StatusesNow, job.status)
        twice == SupervisorRun(once.tasks, once.job)
    IN  /\ twice.enq = <<>> /\ twice.tasks = once.tasks /\ twice.job = once.job
        /\ Stable => (once.enq = <<>> /\ once.tasks = StatusesNow /\ once.job = job.status)
        /\ \A r \in BagToSet(running) :
              (r.kind = "supervisor_loop" /\ r.pc \in {"commit", "enqueue"})
                  => r.loc \in Dispatchable

\* C6 witness: a supervisor run was started on a stable job with a task in a
\* sentinel and has scanned it to the last task.
C6_Witness ==
    /\ Stable
    /\ \E r \in BagToSet(running) :
          /\ r.kind = "supervisor_loop" /\ r.pc = "scan" /\ ~r.committed
          /\ r.i = r.n /\ r.snap = StatusesNow
          /\ \E t \in DOMAIN tasks : tasks[t].status \in Sentinels

\* C7: a phase handler that finishes after its task has left the sentinel the
\* message was dispatched for leaves the task's status unchanged.
C7_RedeliveryTolerated ==
    [][\A r \in BagToSet(running) :
          (TaskHandlerFinishes(r) /\ tasks[r.task].status \notin SentinelsOf(r.kind))
              => tasks'[r.task].status = tasks[r.task].status]_vars

\* C8: on every exit path of a task-level handler that found the task in its
\* in-progress sentinel, the task is not left in that sentinel and exactly one
\* supervisor message is enqueued.
C8_HandlerAlwaysHandsOver ==
    [][\A r \in BagToSet(running) :
          (TaskHandlerFinishes(r) /\ r.loc \in SentinelsOf(r.kind))
              => /\ tasks'[r.task].status \notin SentinelsOf(r.kind)
                 /\ SupervisorMessages(queue') = SupervisorMessages(queue) + 1]_vars

\* C9: under weak fairness of the workers, if every agent call returns and
\* the planner yields a task, the job eventually is completed or failed.
C9_EventuallyTerminal ==
    ([](raised = 0) /\ <>(Len(tasks) > 0)) => <>(job.status \in {"completed", "failed"})

\* C10: within the TTL, all requests that carry the same Idempotency-Key
\* get the same job: one row created, one chain enqueued, one job_id returned.
JobsOfKey(k) ==
    {api.req[q].job : q \in {x \in Requests : api.req[x].key = k /\ api.req[x].job # NoJob}}

C10_SameKeySameJob ==
    \A k \in Keys \ {""} : k \notin api.expired => Cardinality(JobsOfKey(k)) <= 1

\* C11: a failure of the idempotency cache never fails a POST /research
\* request: no request is answered with an error, and a request that is over
\* has its job row, its chain, and a JobStatus.
C11_CacheFailureTolerated ==
    \A q \in Requests :
        /\ api.req[q].pc # "error"
        /\ api.req[q].pc = "done"
               => /\ api.req[q].job \in api.rows
                  /\ \E n \in DOMAIN api.chains : api.chains[n] = api.req[q].job

FinalCritiqueMessages(q) == Count(q, Msg("final_critique", 0, AggregateDraft("json")))

AggregateMessages(q) == Count(q, Msg("aggregate_report", 0, "job"))

\* C12: in the step in which the reporter throws during aggregate_report the
\* job becomes failed with report {error}, no final_critique is enqueued, no
\* chunk has been written for the job, and the progress projector reports
\* (0, failed).
C12_AggregationFailure ==
    [][AggregateRaises
          => /\ job'.status = "failed"
             /\ job'.report = "error"
             /\ FinalCritiqueMessages(queue') = FinalCritiqueMessages(queue)
             /\ chunkSaves' = 0
             /\ CalculateProgress(job'.status, [t \in DOMAIN tasks' |-> tasks'[t].status])
                    = <<0, "failed">>]_vars

\* C13: once aggregate_report has failed for the job, no further
\* aggregate_report message is enqueued and the status stays failed.
C13_NoAggregationRetry ==
    [][job.status = "failed"
          => /\ job'.status = "failed"
             /\ AggregateMessages(queue') <= AggregateMessages(queue)]_vars

\* C14: save_chunks is executed at most once for the job.
C14_ChunksSavedOnce == chunkSaves <= 1

\* The responses the API can give for the job in the current state: the one
\* create_research returns on creation (while the row is as created), and the
\* one an idempotency hit or GET /research/{job_id} computes.
Responses ==
    {StatusResponse(job, StatusesNow)}
        \cup (IF job.status = "pending" THEN {CreatedResponse} ELSE {})

\* C15: in every response progress_percent is in 0..100, it is 100 iff the
\* status is completed, and 0 iff the status is pending or failed.
C15_ProgressBounds ==
    \A resp \in Responses :
        /\ resp.progress_percent \in 0..100
        /\ resp.progress_percent = 100 <=> resp.status = "completed"
        /\ resp.progress_percent = 0 <=> resp.status \in {"pending", "failed"}

\* C15 witness: one of two tasks is reviewed and the job is in progress.
C15_Witness ==
    /\ Len(tasks) = 2 /\ job.status = "processing"
    /\ StatusResponse(job, StatusesNow).progress_percent = 55

\* C16: in every response the status is one of pending, processing,
\* completed, failed and current_phase is one of queued, enriching, planning,
\* researching, reporting, failed.
C16_ResponseVocabulary ==
    \A resp \in Responses :
        /\ resp.status \in {"pending", "processing", "completed", "failed"}
        /\ resp.current_phase \in {"queued", "enriching", "planning", "researching",
                                   "reporting", "failed"}

HandlerMessages(q, kind, t) == Count(q, Msg(kind, t, "task"))

\* The supervisor run r executes the statement at position pc in this step.
SupervisorAt(r, pc) == r.kind = "supervisor_loop" /\ r.pc = pc /\ Steps(r)

\* C17: the rejection retry path. A supervisor that finds a task REJECTED
\* writes RESEARCHING_RETRY and enqueues the researcher, not hypothesis
\* generation; the researcher started on RESEARCHING_RETRY has the stored
\* feedback for its prompt and on success writes RESEARCHED; from RESEARCHED
\* the supervisor dispatches scoring, then contradiction, then review; and an
\* approving critic ends the task in APPROVED.
C17_RejectionRetryPath ==
    [][\A r \in BagToSet(running) :
          /\ (SupervisorAt(r, "commit") /\ r.loc = "REJECTED")
                 => tasks'[r.i].status = "RESEARCHING_RETRY"
          /\ (SupervisorAt(r, "enqueue") /\ r.loc = "REJECTED")
                 => /\ HandlerMessages(queue', "perform_research", r.i)
                           = HandlerMessages(queue, "perform_research", r.i) + 1
                    /\ HandlerMessages(queue', "generate_hypotheses", r.i)
                           = HandlerMessages(queue, "generate_hypotheses", r.i)
          /\ (TaskHandlerFinishes(r) /\ r.kind = "perform_research"
                  /\ r.loc = "RESEARCHING_RETRY")
                 => /\ r.locfb # "none"
                    /\ raised' = raised => tasks'[r.task].status = "RESEARCHED"
          /\ (SupervisorAt(r, "enqueue") /\ r.loc \in {"RESEARCHED", "SCORED", "CONTRADICTED"})
                 => LET next == CASE r.loc = "RESEARCHED" -> "score_evidence"
                                  [] r.loc = "SCORED" -> "find_contradictions"
                                  [] r.loc = "CONTRADICTED" -> "review"
                    IN  HandlerMessages(queue', next, r.i)
                            = HandlerMessages(queue, next, r.i) + 1
          /\ (TaskHandlerFinishes(r) /\ r.kind = "review" /\ r.loc = "REVIEW_STARTED"
                  /\ raised' = raised /\ rejected' = rejected)
                 => tasks'[r.task].status = "APPROVED"]_vars

\* C17 witness: a task the critic rejected has been retried and is APPROVED.
C17_Witness ==
    \E t \in DOMAIN tasks :
        tasks[t].status = "APPROVED" /\ tasks[t].feedback = "critic" /\ rejected = 1

\* A soft-signal handler finishes on its failure path: json.loads rejected the
\* agent's output, or the agent call raised.
SoftHandlerFails(r) ==
    /\ TaskHandlerFinishes(r) /\ r.kind \in SoftHandlers
    /\ (skipped' = skipped + 1 \/ raised' = raised + 1)

\* C18: a hypothesis, evidence or contradiction handler whose agent output
\* fails JSON parsing, or whose agent raises, still moves the task to its
\* completion status (HYPOTHESIZED, SCORED, CONTRADICTED), leaves the
\* corresponding column (hypotheses, evidence_rating, contradictions) null, on
\* the first pass and on every retry round, and enqueues the supervisor.
C18_SoftFailureAdvances ==
    [][\A r \in BagToSet(running) :
          (SoftHandlerFails(r) /\ r.loc \in SentinelsOf(r.kind))
              => /\ tasks'[r.task].status = HandlerStatus(r.kind, "badjson")
                 /\ PayloadField(r.kind) \notin tasks'[r.task].payload
                 /\ SupervisorMessages(queue') = SupervisorMessages(queue) + 1]_vars

\* C19: when the researcher fails during perform_research for an existing
\* task (loaded in the status it was dispatched in, RESEARCHING_STARTED or
\* RESEARCHING_RETRY), the handler writes status REJECTED and a "System Error" feedback,
\* leaves task.result as it was and enqueues the supervisor; the supervisor
\* that finds the task REJECTED sends it on through RESEARCHING_RETRY.
C19_ResearchFailureRejected ==
    [][\A r \in BagToSet(running) :
          /\ (TaskHandlerRaises(r) /\ r.kind = "perform_research"
                  /\ r.loc \in SentinelsOf(r.kind))
                 => /\ tasks'[r.task].status = "REJECTED"
                    /\ tasks'[r.task].feedback = "system_error"
                    /\ tasks'[r.task].result = tasks[r.task].result
                    /\ SupervisorMessages(queue') = SupervisorMessages(queue) + 1
          /\ (SupervisorAt(r, "commit") /\ r.loc = "REJECTED"
                  /\ tasks[r.i].feedback = "system_error")
                 => tasks'[r.i].status = "RESEARCHING_RETRY"]_vars

\* C19 witness: a task whose researcher failed is being retried.
C19_Witness ==
    \E t \in DOMAIN tasks :
        /\ tasks[t].status = "RESEARCHING_RETRY"
        /\ tasks[t].feedback = "system_error"
        /\ raised = 1

\* review finishes having got an output from the critic.
ReviewDecides(r) ==
    TaskHandlerFinishes(r) /\ r.kind = "review" /\ critic' \in CriticOutputs

\* C20: review (run for a task loaded in REVIEW_STARTED) sets the status from
\* the critic's output only: APPROVED if and only if the output parses as JSON
\* with approved = true; otherwise REJECTED, with the critic's feedback when
\* the output parsed and a "Parse Error" feedback when it did not; in both
\* cases the supervisor is enqueued.
C20_ReviewFollowsCritic ==
    [][\A r \in BagToSet(running) :
          (ReviewDecides(r) /\ r.loc = "REVIEW_STARTED")
              => /\ tasks'[r.task].status = "APPROVED" <=> critic' = "approved_true"
                 /\ tasks'[r.task].status # "APPROVED"
                        => /\ tasks'[r.task].status = "REJECTED"
                           /\ tasks'[r.task].feedback
                                  = IF CriticParses(critic') THEN "critic" ELSE "parse_error"
                 /\ SupervisorMessages(queue') = SupervisorMessages(queue) + 1]_vars

\* C21: every execution of final_critique_task for the (existing) job ends
\* with job.status = completed and job.report = the draft it was given,
\* whether the final critic approves, rejects, returns text that is no JSON
\* or throws, and whether or not save_chunks fails afterwards.
C21_FinalCritiqueCompletes ==
    [][\A r \in BagToSet(running) :
          (r.kind = "final_critique" /\ r.pc = "agent" /\ Steps(r))
              => job'.status = "completed" /\ job'.report = r.arg]_vars

\* plan_research finishes having got an output from the planner.
PlanDecides(r) == r.kind = "plan_research" /\ r.pc = "agent" /\ Steps(r)

\* C22: when the planner's output fails JSON parsing, plan_research adds
\* exactly one task row, PENDING and titled with the full description it was
\* called with, and enqueues the supervisor exactly once.
C22_PlanFallback ==
    [][\A r \in BagToSet(running) :
          (PlanDecides(r) /\ planner' = "badjson")
              => /\ tasks' = Append(tasks, [NewTask EXCEPT !.title = r.arg])
                 /\ SupervisorMessages(queue') = SupervisorMessages(queue) + 1]_vars

\* C22 witness: the fallback plan has just been written: one PENDING task
\* titled with the description, and a supervisor message waiting.
C22_Witness ==
    /\ planner = "badjson"
    /\ Len(tasks) = 1 /\ tasks[1].status = "PENDING" /\ tasks[1].title = "enriched"
    /\ SupervisorMessages(queue) = 1

PlanMessages(q, description) == Count(q, Msg("plan_research", 0, description))

EnrichEnds(r) == r.kind = "enrich_idea" /\ r.pc = "agent" /\ Steps(r)

\* C23: when the enricher succeeds, enrich_idea sets job.description to the
\* enriched text and job.status to processing, and plan_research is called
\* with the enriched text; when the enricher raises, the job row is left as it
\* was and plan_research is still called, with the original idea.
C23_EnrichOrFallBack ==
    [][\A r \in BagToSet(running) :
          EnrichEnds(r)
              => IF raised' = raised
                 THEN /\ job'.description = "enriched" /\ job'.status = "processing"
                      /\ PlanMessages(queue', "enriched") = PlanMessages(queue, "enriched") + 1
                 ELSE /\ job' = job
                      /\ PlanMessages(queue', r.arg) = PlanMessages(queue, r.arg) + 1]_vars

\* C23 witness: the enricher raised, the job row is untouched, and the plan
\* made from the original idea is in place.
C23_Witness ==
    /\ raised = 1 /\ job.description = "null" /\ job.status = "pending"
    /\ Len(tasks) = 1 /\ tasks[1].title = "idea"

\* The request's key is in the cache when create_research looks it up.
CacheHit(q) ==
    /\ api.req[q].pc = "get" /\ UsesCache(api.req[q].key)
    /\ api.cache[api.req[q].key] # NoJob

\* C24: a POST /research whose Idempotency-Key hits the cache (the lookup
\* returned the cached id) creates no job row, writes nothing to the cache,
\* enqueues nothing and answers with the current status of the cached job; a
\* POST with no key, or an empty one, goes on to create its job whatever the
\* cache holds, never fails on the store and leaves the cache as it is.
C24_CacheHitHasNoEffect ==
    [][\A q \in Requests :
          /\ (CacheHit(q) /\ api'.req[q] # api.req[q] /\ api'.req[q].pc # "error")
                 => /\ api'.req[q] = [api.req[q] EXCEPT !.pc = "done", !.resp = "status",
                                                         !.job = api.cache[api.req[q].key]]
                    /\ api'.rows = api.rows /\ api'.cache = api.cache
                    /\ api'.chains = api.chains
          /\ (~UsesCache(api.req[q].key) /\ api'.req[q] # api.req[q])
                 => /\ api'.cache = api.cache
                    /\ api'.req[q].pc # "error"
                    /\ api.req[q].pc = "get" => api'.req[q].pc = "create"]_vars

\* C24 witness: one request created a job under a key, and a second request
\* with the same key was answered from the cache with that job's status.
C24_Witness ==
    \E q1, q2 \in Requests :
        /\ api.req[q1].pc = "done" /\ api.req[q1].resp = "created"
        /\ api.req[q2].pc = "done" /\ api.req[q2].resp = "status"
        /\ api.req[q2].job = api.req[q1].job
        /\ api.rows = {api.req[q1].job} /\ Len(api.chains) = 1

\* The request has been turned away with a 4xx.
Rejected(q) == api.req[q].pc = "rejected"

\* The request is a POST /research that has arrived.
Posted(q) == api.req[q].pc \notin {"idle", "answered"}

\* Auth is enabled and the request's token is missing or is not the secret.
Unauthorised(q) ==
    /\ api.req[q].enabled
    /\ (api.req[q].header = "" \/ Token(api.req[q].header) # ConfiguredSecret)

\* The idea is missing or shorter than 5 characters.
Invalid(q) == api.req[q].idea = NoIdea \/ api.req[q].idea < MinIdeaLength

\* C25: a POST /research is answered with a 4xx exactly when auth is enabled
\* and its token (the header without its "Bearer " prefixes) is missing or
\* wrong (403) or its idea is missing or shorter than 5 characters (422); such
\* a request has no job, and every job row, every idempotency record and
\* every enqueued chain belongs to a request that was not turned away.
C25_RejectedReachesNothing ==
    /\ \A q \in Requests :
          Posted(q)
              => /\ Rejected(q) <=> (Unauthorised(q) \/ Invalid(q))
                 /\ Rejected(q)
                        => /\ api.req[q].job = NoJob
                           /\ api.req[q].resp = IF Unauthorised(q) THEN "403" ELSE "422"
    /\ \A j \in api.rows : \E q \in Requests : ~Rejected(q) /\ api.req[q].job = j
    /\ \A n \in DOMAIN api.chains :
          \E q \in Requests : ~Rejected(q) /\ api.req[q].job = api.chains[n]
    /\ \A k \in Keys \ {""} :
          api.cache[k] # NoJob
              => \E q \in Requests : ~Rejected(q) /\ api.req[q].key = k
                                                  /\ api.req[q].job = api.cache[k]

\* C25 witness: a request was turned away with 403 and another with 422, both
\* sent with an Idempotency-Key, and there is no job row, no cached key and no
\* chain.
C25_Witness ==
    /\ \E q \in Requests : Rejected(q) /\ api.req[q].resp = "403" /\ api.req[q].key # ""
    /\ \E q \in Requests : Rejected(q) /\ api.req[q].resp = "422" /\ api.req[q].key # ""
    /\ api.rows = {} /\ api.chains = <<>>
    /\ \A k \in Keys \ {""} : api.cache[k] = NoJob

\* C26: in every state in which the job has tasks and at least one of them is
\* not APPROVED (tasks in REJECTED or RESEARCHING_RETRY included), the job's
\* status is processing.
C26_DegradedJobProcessing ==
    (Len(tasks) > 0 /\ \E t \in DOMAIN tasks : tasks[t].status # "APPROVED")
        => job.status = "processing"

----------------------------------------------------------------------------
\* C27: an age-filtered search returns only chunks created at or after
\* now - max_age_days; a chunk created exactly at the cutoff is eligible (it
\* is left out only when the limit is filled by chunks at least as near) and
\* an older chunk is never returned; without max_age_days no chunk is left
\* out because of its age.
C27_AgeFilteredSearch ==
    rag.query.done =>
        LET q       == rag.query
            cutoff  == rag.now - q.max_age_days * TicksPerDay
            InAge(c) == q.max_age_days = NoAge \/ rag.chunks[c].created_at >= cutoff
        IN  /\ q.found \subseteq DOMAIN rag.chunks
            /\ \A c \in q.found : InAge(c)
            /\ \A c \in DOMAIN rag.chunks \ q.found :
                   InAge(c) =>
                       /\ Cardinality(q.found) = q.limit
                       /\ \A f \in q.found : rag.chunks[f].dist <= rag.chunks[c].dist

\* A search with max_age_days = 1 that returned a chunk created exactly at the
\* cutoff and left out one a tick older although the limit was not reached.
C27_Witness ==
    /\ rag.query.done
    /\ rag.query.max_age_days = 1
    /\ \E c \in rag.query.found : rag.chunks[c].created_at = rag.now - TicksPerDay
    /\ \E c \in DOMAIN rag.chunks \ rag.query.found :
           rag.chunks[c].created_at = rag.now - TicksPerDay - 1
    /\ Cardinality(rag.query.found) < rag.query.limit

\* C28: every chunk written by save_chunks has content of at least 50
\* characters and an embedding of length 1024; when the save commits, the
\* rows it adds are exactly the chunks of the paragraphs that are long enough
\* and whose embedding call succeeded, so a short or failed paragraph gives
\* no chunk and keeps no other paragraph of the batch from being written.
C28_ChunksWritten ==
    /\ \A c \in DOMAIN rag.chunks :
           /\ rag.chunks[c].content >= MinChunkLength
           /\ rag.chunks[c].embedding = EmbeddingDim
    /\ rag.saved.done = "ok" =>
           LET batch  == rag.saved.batch
               usable == {i \in DOMAIN batch :
                             batch[i].len >= MinChunkLength /\ batch[i].embed = "vector"}
               first  == Len(rag.chunks) - rag.saved.written
               \* the place among the new rows of the chunk of paragraph i
               Row(i) == first + Cardinality({k \in usable : k <= i})
           IN  /\ rag.saved.written = Cardinality(usable)
               /\ \A i \in usable :
                      /\ rag.chunks[Row(i)].content = batch[i].len
                      /\ rag.chunks[Row(i)].dist = batch[i].dist
                      /\ rag.chunks[Row(i)].created_at = rag.now

\* A committed save of a batch whose first paragraph failed (too short, or no
\* embedding) and whose second paragraph was written.
C28_Witness ==
    /\ rag.saved.done = "ok"
    /\ Len(rag.saved.batch) = 2
    /\ rag.saved.batch[1].embed = "raise" \/ rag.saved.batch[1].len < MinChunkLength
    /\ rag.saved.written = 1
    /\ rag.chunks[Len(rag.chunks)].dist = rag.saved.batch[2].dist

\* A supervisor run is at position pc for task i after this step.
SupervisorArrives(pc, i, loc) ==
    \E x \in BagToSet(running') :
        /\ x.kind = "supervisor_loop" /\ x.pc = pc /\ x.i = i /\ x.loc = loc
        /\ Count(running', x) > Count(running, x)

\* C29: for a task it finds PENDING, HYPOTHESIZED, RESEARCHED, SCORED,
\* CONTRADICTED or REJECTED a supervisor run first commits the matching
\* sentinel, with nothing enqueued yet, and then enqueues one message of the
\* matching handler for that task; a handler message is enqueued only by a
\* supervisor run that has committed the task's sentinel, and unless runs
\* overlap or a message is redelivered the task still has that sentinel when
\* the message is enqueued.
C29_SentinelBeforeDispatch ==
    [][LET Matching ==
               {<<"PENDING", "HYPOTHESIZING_STARTED", "generate_hypotheses">>,
                <<"HYPOTHESIZED", "RESEARCHING_STARTED", "perform_research">>,
                <<"RESEARCHED", "SCORING_STARTED", "score_evidence">>,
                <<"SCORED", "CONTRADICTING_STARTED", "find_contradictions">>,
                <<"CONTRADICTED", "REVIEW_STARTED", "review">>,
                <<"REJECTED", "RESEARCHING_RETRY", "perform_research">>}
           Found == {m[1] : m \in Matching}
       IN  /\ \A r \in BagToSet(running) :
                 /\ (SupervisorAt(r, "scan") /\ SupSeen(r) \in Found)
                        => /\ tasks' = tasks /\ queue' = queue
                           /\ SupervisorArrives("commit", r.i, SupSeen(r))
                 /\ SupervisorAt(r, "commit")
                        => \E m \in Matching :
                               /\ m[1] = r.loc
                               /\ tasks' = [tasks EXCEPT ![r.i].status = m[2]]
                               /\ queue' = queue
                               /\ SupervisorArrives("enqueue", r.i, r.loc)
                 /\ SupervisorAt(r, "enqueue")
                        => \E m \in Matching :
                               /\ m[1] = r.loc
                               /\ r.committed
                               /\ queue' = Put(queue, Msg(m[3], r.i, "task"))
                               /\ tasks' = tasks
                               /\ (overlaps = 0 /\ redelivered = 0) => tasks[r.i].status = m[2]
                               /\ ~SupervisorArrives("commit", r.i, r.loc)
                               /\ ~SupervisorArrives("enqueue", r.i, r.loc)
           /\ \A k \in TaskHandlers, t \in DOMAIN tasks :
                 (HandlerMessages(queue', k, t) > HandlerMessages(queue, k, t)
                      /\ redelivered' = redelivered)
                    => \E r \in BagToSet(running) :
                           SupervisorAt(r, "enqueue") /\ r.i = t /\ r.committed]_vars

\* C29 witness: a supervisor run found a rejected task, committed
\* RESEARCHING_RETRY and has enqueued the researcher for it.
C29_Witness ==
    \E t \in DOMAIN tasks :
        /\ tasks[t].status = "RESEARCHING_RETRY"
        /\ HandlerMessages(queue, "perform_research", t) = 1
        /\ rejected = 1

\* C30: a supervisor run enqueues aggregate_report exactly when the job has
\* a task, every task it scanned was APPROVED and job.status is neither
\* generating nor completed, and then it commits generating before it
\* enqueues; a run for a job that is already generating or completed leaves
\* job.status as it is and enqueues no aggregation, and so does a run that
\* found no task or a task that is not APPROVED.
C30_AggregationDecision ==
    [][\A r \in BagToSet(running) :
          LET Closed == job.status \in {"generating", "completed"} IN
          /\ SupervisorAt(r, "jobread")
                 => /\ r.allApproved /\ r.n > 0
                    /\ job' = job /\ AggregateMessages(queue') = AggregateMessages(queue)
                    /\ ~Closed <=> SupervisorArrives("jobcommit", r.i, job.status)
          /\ SupervisorAt(r, "jobcommit")
                 => /\ ~Closed
                    /\ job' = [job EXCEPT !.status = "generating"]
                    /\ AggregateMessages(queue') = AggregateMessages(queue)
          /\ SupervisorAt(r, "jobenqueue")
                 => /\ job' = job
                    /\ AggregateMessages(queue') = AggregateMessages(queue) + 1
          /\ (r.kind = "supervisor_loop" /\ Steps(r)
                  /\ r.pc \notin {"jobread", "jobcommit", "jobenqueue"})
                 => /\ job' = job
                    /\ AggregateMessages(queue') = AggregateMessages(queue)
                    /\ SupervisorArrives("jobread", r.i, "none")
                           <=> /\ r.pc = "scan" /\ r.i = r.n
                               /\ r.allApproved /\ SupSeen(r) = "APPROVED"]_vars

\* C31: the progress projector maps completed to (100, reporting), failed
\* to (0, failed), pending to (0, enriching), any other status with no task
\* to (10, planning), and otherwise, with t tasks of which c are APPROVED or
\* REJECTED, to (90, reporting) when c = t and to
\* (20 + floor(70 * c / t), researching) when c < t; the percentage exceeds
\* 99 only for a completed job.
C31_ProgressProjection ==
    projector.done =>
        LET c == projector.completed
            t == projector.total
        IN  /\ projector.out =
                   (CASE projector.status = "completed" -> <<100, "reporting">>
                      [] projector.status = "failed"    -> <<0, "failed">>
                      [] projector.status = "pending"   -> <<0, "enriching">>
                      [] OTHER -> IF t = 0 THEN <<10, "planning">>
                                  ELSE IF c = t THEN <<90, "reporting">>
                                  ELSE <<20 + ((70 * c) \div t), "researching">>)
            /\ projector.out[1] > 99 => projector.status = "completed"

\* The positions of the LLM's responses in a conversation, and of those
\* among them that carry no tool call.
LlmResponses(msgs) == {i \in DOMAIN msgs : msgs[i].role = "assistant"}
TextResponses(msgs) == {i \in LlmResponses(msgs) : msgs[i].tool_calls = <<>>}

\* C32: an agent run terminates after at most 5 calls of generate. Every
\* step of the run brings it nearer to its end (the turns left, then the tool
\* calls left, decrease), generate is never called a sixth time, a run that
\* returns gives the content of the first response without tool calls, and
\* it gives "Max turns reached." exactly when all 5 responses carried tool
\* calls.
C32_AgentRunTerminates ==
    [][LET Rank(pc) == CASE pc = "idle" -> 2 [] pc = "generate" -> 1 [] OTHER -> 0
           Left(a) == 3 * ((MaxTurns - a.turn) * (MaxToolCalls + 1) + Len(a.todo)) + Rank(a.pc)
           msgs == agentRun'.messages
       IN  /\ Left(agentRun') < Left(agentRun)
           /\ Left(agentRun') >= 0
           /\ agentRun'.turn <= 5
           /\ Cardinality(LlmResponses(msgs)) <= 5
           /\ agentRun'.pc = "returned" =>
                  /\ TextResponses(msgs) # {} =>
                         \E i \in TextResponses(msgs) :
                             /\ \A k \in TextResponses(msgs) : i <= k
                             /\ agentRun'.result = msgs[i].content
                  /\ agentRun'.result = "Max turns reached."
                         <=> (Cardinality(LlmResponses(msgs)) = 5 /\ TextResponses(msgs) = {})]_vars

\* C32 witness: the run has returned the sentinel after five responses with
\* tool calls.
C32_Witness ==
    /\ agentRun.pc = "returned"
    /\ agentRun.result = "Max turns reached."
    /\ Cardinality(LlmResponses(agentRun.messages)) = 5

\* C33: in the conversation of an agent run every response with tool calls
\* is followed by one tool message per tool call, in the order of the calls,
\* each with the call's id and name (while the calls of the last response are
\* being executed, one per call executed so far); the message of a tool that
\* raised or is not registered carries the error text; the run ends by an
\* exception only when generate raised, with the tool messages of every
\* response complete, whether or not an AgentLog failed to persist.
C33_ToolMessages ==
    LET msgs == agentRun.messages
        last == CHOOSE i \in LlmResponses(msgs) : \A k \in LlmResponses(msgs) : k <= i
        Executed(i) == IF i = last /\ agentRun.pc = "tools"
                       THEN Len(msgs[i].tool_calls) - Len(agentRun.todo)
                       ELSE Len(msgs[i].tool_calls)
    IN  /\ \A i \in LlmResponses(msgs) :
               /\ i + Executed(i) <= Len(msgs)
               /\ \A k \in 1..Executed(i) :
                      LET tc == msgs[i].tool_calls[k]
                          m  == msgs[i + k]
                      IN  /\ m.role = "tool"
                          /\ m.tool_call_id = tc.id
                          /\ m.name = tc.name
                          /\ tc.name \notin RegisteredTools => m.content = "Tool not found"
                          /\ (tc.name \in RegisteredTools /\ ToolRaises(tc.name))
                                 => m.content = "Error executing tool"
               /\ i + Executed(i) < Len(msgs) => msgs[i + Executed(i) + 1].role = "assistant"
        /\ agentRun.pc = "tools" => agentRun.todo # <<>>
        /\ agentRun.pc # "tools" => agentRun.todo = <<>>

\* C33 witness: a run in which a log write failed has returned after a
\* response that called a raising tool and then an unregistered one.
C33_Witness ==
    /\ agentRun.pc = "returned" /\ agentRun.logFailed
    /\ \E i \in DOMAIN agentRun.messages :
           /\ i + 1 \in DOMAIN agentRun.messages
           /\ agentRun.messages[i].content = "Error executing tool"
           /\ agentRun.messages[i + 1].content = "Tool not found"

\* C34: a deep search sends at most 4 queries to the search service; the
\* original query is one of them and is the first, whatever the LLM answered
\* and also when it raised; a query whose search raises is passed over and
\* the search still returns, with results of the other queries only; the
\* merged result has no URL twice and at most 2 * max_results results.
C34_DeepSearch ==
    deep.done =>
        /\ Len(deep.asked) <= 4
        /\ deep.asked # <<>>
        /\ deep.asked[1] = OriginalQuery
        /\ \A i, k \in DOMAIN deep.results : deep.results[i] = deep.results[k] => i = k
        /\ Len(deep.results) <= 2 * deep.max_results
        /\ \A i \in DOMAIN deep.results :
               \E k \in DOMAIN deep.asked :
                   /\ deep.asked[k] \notin deep.failing
                   /\ \E h \in DOMAIN Hits(deep.asked[k]) :
                          deep.results[i] = Hits(deep.asked[k])[h]

\* The handlers whose first statement is "db = SessionLocal()" and whose
\* "finally: db.close()" ends them: every one but enrich_idea and
\* plan_research, which open their session after the agent has answered.
\* The execution r has a database session open.
SessionOpen(r) ==
    r.kind \in TaskHandlers \cup {"final_critique", "aggregate_report", "supervisor_loop"}

\* C35: no handler execution has a database session open while its agent
\* call is in progress.
C35_NoSessionAcrossAgentCall ==
    \A r \in BagToSet(running) : r.pc = "agent" => ~SessionOpen(r)

\* C36: once the job is completed its report is final: whatever executions
\* are still queued or running, the status stays completed and the report is
\* not overwritten.
C36_CompletedIsFinal ==
    [][job.status = "completed"
          => job'.status = "completed" /\ job'.report = job.report]_vars

\* C37: the job's status changes only along pending -> processing ->
\* generating -> completed or failed: no stage is skipped and no status moves
\* backward.
C37_JobStatusFollowsEdges ==
    [][LET JobEdges == {<<"pending", "processing">>, <<"processing", "generating">>,
                        <<"generating", "completed">>, <<"generating", "failed">>}
       IN  job'.status # job.status => <<job.status, job'.status>> \in JobEdges]_vars

\* C38: progress is monotone: while the job does not fail, the
\* progress_percent a GET /research/{job_id} returns after a step is not
\* lower than the one it returned before the step, also when a rejected task
\* is sent back to research.
C38_ProgressMonotone ==
    [][(job.status # "failed" /\ job'.status # "failed")
          => CalculateProgress(job'.status, [t \in DOMAIN tasks' |-> tasks'[t].status])[1]
                 >= CalculateProgress(job.status, StatusesNow)[1]]_vars

\* C39: when plan_research finishes, whatever the planner produced (a list
\* of titles, an empty list, other JSON, text that is not JSON, or an
\* exception of the agent), the job has a PENDING task and one more
\* supervisor message is in the queue.
C39_PlanLeavesWork ==
    [][\A r \in BagToSet(running) :
          PlanDecides(r)
              => /\ \E t \in DOMAIN tasks' : tasks'[t].status = "PENDING"
                 /\ SupervisorMessages(queue') = SupervisorMessages(queue) + 1]_vars

\* C40: a task whose status is RESEARCHED, SCORING_STARTED, SCORED,
\* CONTRADICTING_STARTED, CONTRADICTED, REVIEW_STARTED or APPROVED has a
\* result written by a researcher run that succeeded; so every task
\* aggregate_report reads carries a result.
C40_ResearchedHasResult ==
    /\ \A t \in DOMAIN tasks :
           tasks[t].status \in {"RESEARCHED", "SCORING_STARTED", "SCORED",
                                "CONTRADICTING_STARTED", "CONTRADICTED", "REVIEW_STARTED",
                                "APPROVED"}
               => tasks[t].result
    /\ \A t \in ApprovedTasks : tasks[t].result

\* C40 witness: a task whose first research failed has been researched again
\* and scored, while a second task has no result yet.
C40_Witness ==
    /\ \E t \in DOMAIN tasks :
           tasks[t].status = "SCORED" /\ tasks[t].feedback # "none" /\ tasks[t].result
    /\ \E t \in DOMAIN tasks : ~tasks[t].result

====
